---------------------------- MODULE Spec2Model ----------------------------
(***************************************************************************)
(* A model of the GLASS tutorial notebooks: the shell-by-shell main loops  *)
(* (galaxy shear, weak lensing), the catalogue-to-pixel reduction          *)
(* (argsort / unique / split / scatter-add), the binning sites             *)
(* (searchsorted, digitize, photometric mask) and the analysis cell        *)
(* (fl, mixing matrix).                                                    *)
(*                                                                         *)
(* numpy arrays are 0-based; TLA+ sequences are 1-based.  A numpy array a  *)
(* of length n is the sequence <<a[0], ..., a[n-1]>>, so numpy position j  *)
(* is sequence position j+1.  Index VALUES produced by numpy (argsort's    *)
(* permutation apart, which is kept 1-based) stay 0-based, as in the code. *)
(* Maps over pixels (num, she) are functions on 0..NPix-1.                 *)
(* Complex numbers are pairs <<re, im>> of integers: sums are exact.       *)
(***************************************************************************)
EXTENDS Integers, Sequences, FiniteSets, TLC

VARIABLES
  \* ---- catalogue-to-pixel reduction (inner loop of the shear notebook)
  num,        \* map for galaxy numbers            (part_000 cell 97, line 5)
  she,        \* map for sum of shears, complex    (part_000 cell 97, line 8)
  gal_pix,    \* pixel index of each galaxy of the batch being reduced
  gal_she,    \* shear of each galaxy of the batch being reduced
  raised,     \* the exception that ended the run, or "none"
  seen,       \* number of galaxies yielded so far by the position generator
  \* ---- history of the reduction (what the claims compare against)
  num0,       \* num before the batch in gal_pix was reduced
  she0,       \* she before the batch in gal_pix was reduced
  prev_pix,   \* gal_pix of the batch before this one
  prev_she,   \* gal_she of the batch before this one
  num00,      \* num before the batch in prev_pix was reduced
  she00       \* she before the batch in prev_pix was reduced

VARIABLES
  \* ---- the main loop of a notebook's simulation cell
  nb,          \* the notebook that runs: "shears" (part_000) or "lensing"
  pc,          \* the statement about to run
  i,           \* the loop variable of enumerate(matter); -1 before the loop
  delta_i,     \* the matter field of this iteration: its place in the stream
  yielded,     \* number of fields the generator matter has yielded
  exhausted,   \* whether the generator has signalled the end of the stream
  convergence, \* the MultiPlaneConvergence object: which object it is, and
               \* the add_window calls it has received
  kappa_i,     \* the convergence map read from the accumulator
  gamm_i,      \* the shear maps (gamm1_i, gamm2_i) derived from kappa_i
  ngal,        \* the galaxy density of this shell, or of all shells
  kappa_bar,   \* lensing notebook: the weighted sum of kappa_i
  gamm1_bar,   \* lensing notebook: the weighted sum of gamm1_i
  gamm2_bar,   \* lensing notebook: the weighted sum of gamm2_i
  num_div,     \* shear notebook: the divisors num has been divided by
  she_div      \* shear notebook: the divisors she has been divided by

VARIABLES
  \* ---- the binning sites
  site,        \* the site that has binned: "cube", "tomo", "mask" or "none"
  zbins,       \* the tomographic bins: a list of (z1, z2) edge pairs (empty
               \* in plot_density, which has none)
  coord,       \* plot_density: the coordinates (z1, z2, z3) of a galaxy
  cell,        \* plot_density: its cell indices along the three axes
  gal_phz,     \* plot_s4_galaxies: the photometric redshift of a galaxy
  gal_zbin,    \* plot_s4_galaxies: its tomographic bin id
  zphot,       \* photoz: the photometric redshift of a galaxy
  in_bins      \* photoz: the bins (by position in zbins, from 0) whose
               \* histogram selects the galaxy

binvars == <<site, zbins, coord, cell, gal_phz, gal_zbin, zphot, in_bins>>

VARIABLES
  \* ---- the galaxies of a batch and the Stage-IV catalogue
  lensed_with, \* the shell and the maps (kappa_i, gamm1_i, gamm2_i) that the
               \* last call of glass.galaxies.galaxy_shear was given
  catalogue,   \* plot_s4_galaxies: the catalogue, one row per galaxy
  rows,        \* plot_s4_galaxies: the mini-catalogue of the last batch
  catalogue0   \* the catalogue before the rows of the last batch were added

catvars == <<catalogue, rows, catalogue0>>

VARIABLES
  \* ---- the redshift cube of plot_density
  cube,        \* the cube for galaxy number, cube[i][j][k] for the cell
               \* (i, j, k); << >> in a notebook that has no cube
  gal_count,   \* the number of galaxies of the batch just yielded
  gal_xyz,     \* the coordinates (z1, z2, z3) of the galaxies of the last
               \* batch added to the cube
  ws_used      \* the index of the window of ws that the last call of
               \* redshifts_from_nz sampled from; -1 before the first call

cubevars == <<cube, gal_count, gal_xyz, ws_used>>

morevars == <<lensed_with, catvars, cubevars>>

VARIABLES
  \* ---- the analysis cell of the shear notebook (part_000, lines 19-35)
  apc,         \* the statement of the analysis cell about to run
  nbar,        \* the expected number of galaxies in each pixel
  theory_cls,  \* theory_cls['W1xW1']: the theory spectrum, l = 0..lmax
  pw,          \* the shear pixel window function, l = 0..lmax
  fl,          \* the factor transforming convergence to shear
  nl,          \* the noise level, in units of 4*pi*sigma_e**2
  mm,          \* the mixing matrix
  expected     \* the plotted expectation pw**2 * mm@(fl*theory_cls['W1xW1'])

anavars == <<apc, nbar, theory_cls, pw, fl, nl, mm, expected>>

pixvars == <<num, she, gal_pix, gal_she, raised, seen>>

histvars == <<num0, she0, prev_pix, prev_she, num00, she00>>

loopvars_but_pc == <<nb, i, delta_i, yielded, exhausted, convergence, kappa_i,
                     gamm_i, ngal>>

loopvars == <<pc, loopvars_but_pc>>

meanvars == <<kappa_bar, gamm1_bar, gamm2_bar>>

divvars == <<num_div, she_div>>

vars == <<pixvars, histvars, loopvars, meanvars, divvars, binvars, anavars,
         morevars>>

-----------------------------------------------------------------------------
(* Bounds of the model *)

\* number of HEALPix pixels of the model (npix = 12*nside**2 in the code)
NPix == 2

\* largest number of galaxies in one batch of the position generator
MaxLen == 2

\* largest number of galaxies the position generator yields in one run
MaxPoints == 3

\* number of shells, which is the number of fields the generator yields
NShells == 2

\* width of one cell of the redshift cube, in units of the coordinate grid
CellUnits == 2

\* number of tomographic bins (nbins)
NBins == 2

\* last point of the redshift grid 0..ZGrid on which bin edges lie
ZGrid == 4

\* np.linspace(-zb[-1], zb[-1], 21): the number of cube edges per axis
NCubeEdges == 21

\* the largest angular mode number (lmax)
LMax == 3

Pixels == 0 .. (NPix - 1)

\* the complex shears a galaxy of the model can carry
Shears == { <<1, 0>>, <<-1, 1>> }

-----------------------------------------------------------------------------
(* Complex arithmetic and small helpers *)

CZero == <<0, 0>>

CAdd(a, b) == <<a[1] + b[1], a[2] + b[2]>>

Max(a, b) == IF a >= b THEN a ELSE b

Min(a, b) == IF a <= b THEN a ELSE b

\* all sequences over S of length at most n
SeqsUpTo(S, n) == UNION { [1..k -> S] : k \in 0..n }

\* all orderings of the finite set S, as sequences
RECURSIVE OrderingsOf(_)
OrderingsOf(S) ==
  IF S = {} THEN { << >> }
  ELSE UNION { { <<x>> \o p : p \in OrderingsOf(S \ {x}) } : x \in S }

\* all permutations of 1..n, as sequences
Perms(n) == OrderingsOf(1..n)

\* a[s] : numpy fancy indexing of a by the index array s (s kept 1-based)
Take(a, s) == [k \in 1..Len(s) |-> a[s[k]]]

\* a[lo:hi] : a Python slice with 0-based bounds, clamped to the array
Slice(a, lo, hi) ==
  LET l == Min(Max(lo, 0), Len(a))
      h == Min(Max(hi, 0), Len(a))
  IN  IF h <= l THEN << >> ELSE [k \in 1..(h - l) |-> a[l + k]]

\* np.sum of a complex array (0 for an empty array)
RECURSIVE CSum(_)
CSum(a) == IF a = << >> THEN CZero ELSE CAdd(a[1], CSum(Tail(a)))

\* the elements of a finite set of integers in increasing order
RECURSIVE SortedSeq(_)
SortedSeq(S) ==
  IF S = {} THEN << >>
  ELSE LET m == CHOOSE x \in S : \A y \in S : x <= y
       IN  <<m>> \o SortedSeq(S \ {m})

-----------------------------------------------------------------------------
(* numpy operations used by the reduction *)

\* np.argsort(a): the default sort (quicksort) is not stable, so any
\* permutation that sorts a is a possible result
RECURSIVE SortingOrders(_, _)
SortingOrders(a, S) ==
  IF S = {} THEN { << >> }
  ELSE UNION { { <<x>> \o p : p \in SortingOrders(a, S \ {x}) } :
                 x \in { y \in S : \A z \in S : a[y] <= a[z] } }

ArgSorts(a) == SortingOrders(a, 1..Len(a))

\* np.unique(a, return_index=True, return_counts=True): the sorted distinct
\* values, the (0-based) position of the first occurrence of each, and the
\* number of occurrences of each
Unique(a) ==
  LET vals == SortedSeq({ a[k] : k \in 1..Len(a) })
  IN  [ pix   |-> vals,
        start |-> [g \in 1..Len(vals) |->
                     (CHOOSE j \in 1..Len(a) :
                         a[j] = vals[g] /\ \A k \in 1..(j - 1) : a[k] # vals[g]) - 1],
        count |-> [g \in 1..Len(vals) |->
                     Cardinality({ k \in 1..Len(a) : a[k] = vals[g] })] ]

\* np.split(a, idx): the pieces a[:idx[0]], a[idx[0]:idx[1]], ..., a[idx[-1]:]
\* (always Len(idx)+1 pieces: one piece, the whole array, for an empty idx)
Split(a, idx) ==
  [g \in 1..(Len(idx) + 1) |->
     Slice(a, IF g = 1 THEN 0 ELSE idx[g - 1],
              IF g = Len(idx) + 1 THEN Len(a) ELSE idx[g])]

\* a slip: the split points are all of start, not start[1:]
RestWhole(a) == a

\* start[1:]
Rest(a) == IF a = << >> THEN << >> ELSE Tail(a)

\* list(map(np.sum, np.split(gal_she[s], start[1:])))
GroupSums(sorted_she, start) ==
  LET pieces == Split(sorted_she, Rest(start))
  IN  [g \in 1..Len(pieces) |-> CSum(pieces[g])]

\* whether vals broadcasts to the shape of the index array idx
Broadcasts(idx, vals) == Len(vals) = Len(idx) \/ Len(vals) = 1

\* the sequence position of the last occurrence of p in the index array idx
LastAt(idx, p) ==
  CHOOSE k \in 1..Len(idx) : idx[k] = p /\ \A j \in (k + 1)..Len(idx) : idx[j] # p

\* vals as broadcast to the shape of idx: a one-element vals is repeated
Bcast(vals, k) == vals[IF Len(vals) = 1 THEN 1 ELSE k]

\* a slip: num[idx] = vals, an assignment in place of +=
ScatterAddIntAssign(arr, idx, vals) ==
  [p \in DOMAIN arr |->
     IF \E k \in 1..Len(idx) : idx[k] = p
     THEN Bcast(vals, LastAt(idx, p))
     ELSE arr[p]]

\* num[idx] += vals : numpy evaluates num[idx] + vals from the old array and
\* assigns the results position by position, so of several writes to one
\* index the last one stays
ScatterAddInt(arr, idx, vals) ==
  [p \in DOMAIN arr |->
     IF \E k \in 1..Len(idx) : idx[k] = p
     THEN arr[p] + Bcast(vals, LastAt(idx, p))
     ELSE arr[p]]

\* she[idx] += vals, for a complex map
ScatterAddC(arr, idx, vals) ==
  [p \in DOMAIN arr |->
     IF \E k \in 1..Len(idx) : idx[k] = p
     THEN CAdd(arr[p], Bcast(vals, LastAt(idx, p)))
     ELSE arr[p]]

-----------------------------------------------------------------------------
(* The reduction of one batch: part_000, simulation cell, lines 36-39       *)
(*   s = np.argsort(gal_pix)                                                *)
(*   pix, start, count = np.unique(gal_pix[s], return_index=True,           *)
(*                                 return_counts=True)                      *)
(*   num[pix] += count                                                      *)
(*   she[pix] += list(map(np.sum, np.split(gal_she[s], start[1:])))         *)

\* a slip: num[start] += count, the group positions in place of the pixels
ReduceNumByStart(n, gp, s) ==
  LET u == Unique(Take(gp, s))
  IN  ScatterAddInt(n, u.start, u.count)

\* num after the batch (gp, gs) is reduced with the argsort result s
ReduceNum(n, gp, s) ==
  LET u == Unique(Take(gp, s))
  IN  ScatterAddInt(n, u.pix, u.count)

\* she after the batch (gp, gs) is reduced with the argsort result s
ReduceShe(sh, gp, gs, s) ==
  LET u == Unique(Take(gp, s))
  IN  ScatterAddC(sh, u.pix, GroupSums(Take(gs, s), u.start))

\* she[pix] += ... raises ValueError unless the sums broadcast to pix
ReduceOk(gp, gs, s) ==
  LET u == Unique(Take(gp, s))
  IN  Broadcasts(u.pix, GroupSums(Take(gs, s), u.start))

\* the batches the position generator can yield: one pixel and one shear
\* per galaxy (hp.ang2pix maps every position to a pixel of the map)
Batches == { b \in SeqsUpTo(Pixels \X Shears, MaxLen) : TRUE }

PixOf(b) == [k \in 1..Len(b) |-> b[k][1]]

SheOf(b) == [k \in 1..Len(b) |-> b[k][2]]

\* the history kept for the claims: the last two batches and the maps
\* before each of them
Remember ==
  /\ num0' = num
  /\ she0' = she
  /\ prev_pix' = gal_pix
  /\ prev_she' = gal_she
  /\ num00' = num0
  /\ she00' = she0

\* lines 36-39 for the batch (gp, gs): the batch is sorted by pixel, grouped
\* and added to the maps; line 39 raises ValueError, after line 38 has
\* updated num, when the group sums do not fit the pixel list
Pixelize(gp, gs) ==
  \E s \in ArgSorts(gp) :
    /\ num' = ReduceNum(num, gp, s)
    /\ IF ReduceOk(gp, gs, s)
       THEN she' = ReduceShe(she, gp, gs, s) /\ raised' = raised
       ELSE she' = she /\ raised' = "ValueError"
    /\ gal_pix' = gp
    /\ gal_she' = gs

\* one pass of the inner loop (lines 25-39): the generator yields a batch,
\* which is reduced into the maps
ReduceBatch ==
  /\ raised = "none"
  /\ \E b \in Batches :
       /\ seen + Len(b) <= MaxPoints
       /\ Pixelize(PixOf(b), SheOf(b))
       /\ Remember
       /\ seen' = seen + Len(b)

\* num = np.zeros(npix); she = np.zeros(npix, dtype=complex)
InitPix ==
  /\ num = [p \in Pixels |-> 0]
  /\ she = [p \in Pixels |-> CZero]
  /\ gal_pix = << >>
  /\ gal_she = << >>
  /\ raised = "none"
  /\ seen = 0

InitHist ==
  /\ num0 = [p \in Pixels |-> 0]
  /\ she0 = [p \in Pixels |-> CZero]
  /\ prev_pix = << >>
  /\ prev_she = << >>
  /\ num00 = [p \in Pixels |-> 0]
  /\ she00 = [p \in Pixels |-> CZero]

-----------------------------------------------------------------------------
(* The binning sites                                                        *)
(*   plot_density:     np.searchsorted(zcub[1:], [z1, z2, z3])              *)
(*   plot_s4_galaxies: np.digitize(gal_phz, np.unique(zbins)) - 1           *)
(*   photoz:           (z1 <= zphot) & (zphot < z2) for (z1, z2) in zbins   *)

\* a slip: side='right', the number of elements not above v
SearchSortedRight(a, v) == Cardinality({ j \in 1..Len(a) : a[j] <= v })

\* np.searchsorted(a, v), side='left', for a sorted a: the position p with
\* a[p-1] < v <= a[p], which is the number of elements below v
SearchSorted(a, v) == Cardinality({ j \in 1..Len(a) : a[j] < v })

\* np.digitize(x, bins), right=False, for increasing bins: the position p
\* with bins[p-1] <= x < bins[p], which is the number of edges not above x
Digitize(x, bins) == Cardinality({ j \in 1..Len(bins) : bins[j] <= x })

\* zb[-1] on the coordinate grid: the cube spans NCubeEdges-1 cells
ZMax == ((NCubeEdges - 1) * CellUnits) \div 2

\* zcub = np.linspace(-zb[-1], zb[-1], 21)
zcub == [k \in 1..NCubeEdges |-> (k - 1) * CellUnits - ZMax]

\* np.unique(zbins): the sorted distinct edges of the bins
UniqueEdges(zb) == SortedSeq({ zb[k][1] : k \in 1..Len(zb) } \cup
                             { zb[k][2] : k \in 1..Len(zb) })

\* the bin lists glass.observations.equal_dens_zbins can return: NBins
\* contiguous bins (z[k], z[k+1]) on increasing edges of the redshift grid
BinLists ==
  { [k \in 1..NBins |-> <<e[k], e[k + 1]>>] :
      e \in { f \in [1..(NBins + 1) -> 0..ZGrid] :
                \A k \in 1..NBins : f[k] < f[k + 1] } }

\* plot_density, line 24: the cell of one galaxy along each axis
BinCube ==
  /\ site = "none"
  /\ zbins = << >>
  /\ \E z1, z2, z3 \in (-ZMax)..ZMax :
       /\ coord' = <<z1, z2, z3>>
       /\ cell' = [a \in 1..3 |-> SearchSorted(Rest(zcub), <<z1, z2, z3>>[a])]
  /\ site' = "cube"
  /\ UNCHANGED <<zbins, gal_phz, gal_zbin, zphot, in_bins>>
  /\ UNCHANGED <<pixvars, histvars, morevars, loopvars, meanvars, divvars, anavars>>

\* plot_s4_galaxies, line 30: the tomographic bin id of one galaxy
BinTomo ==
  /\ site = "none"
  /\ zbins # << >>
  /\ \E x \in (-1)..(ZGrid + 1) :
       /\ gal_phz' = x
       /\ gal_zbin' = Digitize(x, UniqueEdges(zbins)) - 1
  /\ site' = "tomo"
  /\ UNCHANGED <<zbins, coord, cell, zphot, in_bins>>
  /\ UNCHANGED <<pixvars, histvars, morevars, loopvars, meanvars, divvars, anavars>>

\* photoz, line 5: the histograms a galaxy is counted in
BinMask ==
  /\ site = "none"
  /\ zbins # << >>
  /\ \E x \in (-1)..(ZGrid + 1) :
       /\ zphot' = x
       /\ in_bins' = { k - 1 : k \in { j \in 1..Len(zbins) :
                                        zbins[j][1] <= x /\ x < zbins[j][2] } }
  /\ site' = "mask"
  /\ UNCHANGED <<zbins, coord, cell, gal_phz, gal_zbin>>
  /\ UNCHANGED <<pixvars, histvars, morevars, loopvars, meanvars, divvars, anavars>>

InitBinIdle ==
  /\ site = "none"
  /\ zbins = << >>
  /\ coord = <<0, 0, 0>>
  /\ cell = <<0, 0, 0>>
  /\ gal_phz = 0
  /\ gal_zbin = 0
  /\ zphot = 0
  /\ in_bins = {}

\* one galaxy is about to be binned: in plot_density, which has no
\* tomographic bins, or in a notebook that has computed its zbins
InitBin ==
  /\ site = "none"
  /\ zbins \in BinLists \cup { << >> }
  /\ coord = <<0, 0, 0>>
  /\ cell = <<0, 0, 0>>
  /\ gal_phz = 0
  /\ gal_zbin = 0
  /\ zphot = 0
  /\ in_bins = {}

-----------------------------------------------------------------------------
(* Exact fractions <<n, d>>, d > 0, in lowest terms *)

Abs(x) == IF x < 0 THEN -x ELSE x

RECURSIVE GCD(_, _)
GCD(a, b) == IF b = 0 THEN a ELSE GCD(b, a % b)

Frac(n, d) ==
  LET g == GCD(Abs(n), Abs(d))
      s == IF d < 0 THEN -1 ELSE 1
  IN  <<(s * n) \div g, (s * d) \div g>>

RInt(n) == <<n, 1>>

RAdd(a, b) == Frac(a[1] * b[2] + b[1] * a[2], a[2] * b[2])

RSub(a, b) == Frac(a[1] * b[2] - b[1] * a[2], a[2] * b[2])

RMul(a, b) == Frac(a[1] * b[1], a[2] * b[2])

RDiv(a, b) == Frac(a[1] * b[2], a[2] * b[1])

RZero == RInt(0)

-----------------------------------------------------------------------------
(* The analysis cell: part_000, analysis cell, lines 19-35                  *)

\* l = np.arange(lmax+1)
Modes == 0..LMax

\* nbar*npix, the expected number of galaxies on the sphere
NTot == RMul(nbar, RInt(NPix))

\* np.clip(l**2*(l+1)**2, 1, None): the divisor of fl
FlDivisor(k) == Max(k * k * (k + 1) * (k + 1), 1)

\* a slip: the divisor np.clip(l*(l+1), 1, None), not squared
FlOfUnsquared(k) == Frac((k + 2) * (k + 1) * k * (k - 1), Max(k * (k + 1), 1))

\* fl = (l+2)*(l+1)*l*(l-1)/np.clip(l**2*(l+1)**2, 1, None)
FlOf(k) == Frac((k + 2) * (k + 1) * k * (k - 1), FlDivisor(k))

\* (l >= 2) as a number: numpy multiplies by the boolean as by 0 or 1
AtLeast(k, n) == IF k >= n THEN 1 ELSE 0

\* a slip: the noise level switched on from l = 1, (l >= 1)
NlOfFromOne(k) == RMul(RDiv(RInt(1), NTot), RInt(AtLeast(k, 1)))

\* nl = 4*np.pi/(nbar*npix)*sigma_e**2 * (l >= 2), with 4*pi*sigma_e**2 = 1
NlOf(k) == RMul(RDiv(RInt(1), NTot), RInt(AtLeast(k, 2)))

\* np.eye(lmax+1, lmax+1)
Eye(r, c) == IF r = c THEN 1 ELSE 0

\* mm = (1 - 1/(nbar*npix))*np.eye(lmax+1, lmax+1) + (l+1/2)/(nbar*npix):
\* the vector (l+1/2)/(nbar*npix) is added to every row
MixingMatrix ==
  [r \in Modes |-> [c \in Modes |->
     RAdd(RMul(RSub(RInt(1), RDiv(RInt(1), NTot)), RInt(Eye(r, c))),
          RDiv(RAdd(RInt(c), Frac(1, 2)), NTot))]]

\* m[:n, :] = 0
ZeroRows(m, n) ==
  [r \in DOMAIN m |-> [c \in DOMAIN m[r] |-> IF r < n THEN RZero ELSE m[r][c]]]

\* m[:, :n] = 0
ZeroCols(m, n) ==
  [r \in DOMAIN m |-> [c \in DOMAIN m[r] |-> IF c < n THEN RZero ELSE m[r][c]]]

\* a slip: mm[:2, :2] = 0, the corner block only
ZeroLowModesCorner(m) ==
  [r \in DOMAIN m |-> [c \in DOMAIN m[r] |->
     IF r < 2 /\ c < 2 THEN RZero ELSE m[r][c]]]

\* mm[:2, :] = mm[:, :2] = 0 : the targets are assigned from left to right
ZeroLowModes(m) == ZeroCols(ZeroRows(m, 2), 2)

\* the sum of v[c] over the modes c <= k
RECURSIVE RSumTo(_, _)
RSumTo(v, k) == IF k < 0 THEN RZero ELSE RAdd(v[k], RSumTo(v, k - 1))

\* m @ v
MatVec(m, v) ==
  [r \in DOMAIN m |-> RSumTo([c \in DOMAIN v |-> RMul(m[r][c], v[c])], LMax)]

\* fl*theory_cls['W1xW1']: the factor applied to a convergence spectrum
ShearSpectrum == [c \in Modes |-> RMul(fl[c], RInt(theory_cls[c]))]

\* pw**2 * mm@(fl*theory_cls['W1xW1']): * and @ bind alike and group from
\* the left, so pw**2 scales the columns of mm before the product
Expectation ==
  LET scaled == [r \in Modes |-> [c \in Modes |->
                   RMul(RMul(pw[c], pw[c]), mm[r][c])]]
  IN  MatVec(scaled, ShearSpectrum)

\* the values nbar takes in the model
NBars == { Frac(1, 2), Frac(3, 1) }

\* the pixel window functions of the model
PixWins == { [k \in Modes |-> RInt(1)], [k \in Modes |-> Frac(1, k + 1)] }

\* the analysis cell is about to compute fl: the maps are normalised and
\* the theory spectrum and the pixel window are at hand
InitAna ==
  /\ apc = "fl"
  /\ nbar \in NBars
  /\ theory_cls \in [Modes -> 0..2]
  /\ pw \in PixWins
  /\ fl = << >>
  /\ nl = << >>
  /\ mm = << >>
  /\ expected = << >>

\* the analysis cell does not run
InitAnaIdle ==
  /\ apc = "idle"
  /\ nbar = RInt(1)
  /\ theory_cls = << >>
  /\ pw = << >>
  /\ fl = << >>
  /\ nl = << >>
  /\ mm = << >>
  /\ expected = << >>

\* lines 20-21
ComputeFl ==
  /\ apc = "fl"
  /\ fl' = [k \in Modes |-> FlOf(k)]
  /\ apc' = "nl"
  /\ UNCHANGED <<nbar, theory_cls, pw, nl, mm, expected>>
  /\ UNCHANGED <<pixvars, histvars, morevars, loopvars, meanvars, divvars, binvars>>

\* line 24
ComputeNl ==
  /\ apc = "nl"
  /\ nl' = [k \in Modes |-> NlOf(k)]
  /\ apc' = "mm"
  /\ UNCHANGED <<nbar, theory_cls, pw, fl, mm, expected>>
  /\ UNCHANGED <<pixvars, histvars, morevars, loopvars, meanvars, divvars, binvars>>

\* line 27
BuildMixingMatrix ==
  /\ apc = "mm"
  /\ mm' = MixingMatrix
  /\ apc' = "mm_zero"
  /\ UNCHANGED <<nbar, theory_cls, pw, fl, nl, expected>>
  /\ UNCHANGED <<pixvars, histvars, morevars, loopvars, meanvars, divvars, binvars>>

\* line 28
ZeroMixingMatrix ==
  /\ apc = "mm_zero"
  /\ mm' = ZeroLowModes(mm)
  /\ apc' = "plot"
  /\ UNCHANGED <<nbar, theory_cls, pw, fl, nl, expected>>
  /\ UNCHANGED <<pixvars, histvars, morevars, loopvars, meanvars, divvars, binvars>>

\* line 35
PlotExpectation ==
  /\ apc = "plot"
  /\ expected' = Expectation
  /\ apc' = "done"
  /\ UNCHANGED <<nbar, theory_cls, pw, fl, nl, mm>>
  /\ UNCHANGED <<pixvars, histvars, morevars, loopvars, meanvars, divvars, binvars>>

-----------------------------------------------------------------------------
(* The main loops: part_000 simulation cell (lines 11-39) and analysis cell *)
(* (lines 2-6); plot_lensing simulation cell (lines 2-35)                   *)

NoMap == [planes |-> << >>, read |-> FALSE]

\* an empty weighted sum: np.zeros(12*nside**2), not yet divided
ZeroBar == [terms |-> << >>, div |-> << >>]

\* the state when the simulation cell starts: the setup cells have created
\* the one accumulator, convergence = glass.lensing.MultiPlaneConvergence(cosmo)
InitLoop ==
  /\ nb \in {"shears", "lensing", "s4"}
  /\ pc = "for"
  /\ i = -1
  /\ delta_i = -1
  /\ yielded = 0
  /\ exhausted = FALSE
  /\ convergence = [id |-> 1, planes |-> << >>]
  /\ kappa_i = NoMap
  /\ gamm_i = NoMap
  /\ ngal = << >>
  /\ kappa_bar = ZeroBar
  /\ gamm1_bar = ZeroBar
  /\ gamm2_bar = ZeroBar
  /\ num_div = << >>
  /\ she_div = << >>

\* the main loop does not run
InitLoopIdle ==
  /\ nb = "none"
  /\ pc = "idle"
  /\ i = -1
  /\ delta_i = -1
  /\ yielded = 0
  /\ exhausted = FALSE
  /\ convergence = [id |-> 1, planes |-> << >>]
  /\ kappa_i = NoMap
  /\ gamm_i = NoMap
  /\ ngal = << >>
  /\ kappa_bar = ZeroBar
  /\ gamm1_bar = ZeroBar
  /\ gamm2_bar = ZeroBar
  /\ num_div = << >>
  /\ she_div = << >>

\* no galaxy has been sheared yet; the catalogue is np.empty(0, dtype=...)
InitMore ==
  /\ lensed_with = [shell |-> -1, kappa |-> NoMap, gamm |-> NoMap]
  /\ catalogue = << >>
  /\ rows = << >>
  /\ catalogue0 = << >>

\* no redshift has been sampled yet
InitSampling ==
  /\ gal_count = 0
  /\ gal_xyz = << >>
  /\ ws_used = -1

\* a notebook without a cube
InitNoCube == cube = << >> /\ InitSampling

\* enumerate(matter): the index that goes with the next item
NextIndex(n) == n + 1

\* for i, delta_i in enumerate(matter): the generator yields the next field
ForNext ==
  /\ pc = "for"
  /\ raised = "none"
  /\ yielded < NShells
  /\ i' = NextIndex(i)
  /\ delta_i' = yielded
  /\ yielded' = yielded + 1
  /\ pc' = "add_window"
  /\ UNCHANGED <<nb, exhausted, convergence, kappa_i, gamm_i, ngal>>
  /\ UNCHANGED <<pixvars, histvars, morevars, meanvars, divvars, binvars, anavars>>

\* for i, delta_i in enumerate(matter): the generator is exhausted, the loop
\* ends (in part_000 the cell ends and the analysis cell starts; in
\* plot_s4_galaxies only the length of the catalogue is printed)
ForEnd ==
  /\ pc = "for"
  /\ raised = "none"
  /\ yielded = NShells
  /\ exhausted' = TRUE
  /\ pc' = CASE nb = "shears" -> "normalise"
             [] nb = "lensing" -> "total_ngal"
             [] OTHER -> "done"
  /\ UNCHANGED <<nb, i, delta_i, yielded, convergence, kappa_i, gamm_i, ngal>>
  /\ UNCHANGED <<pixvars, histvars, morevars, meanvars, divvars, binvars, anavars>>

\* convergence.add_window(delta, w): the accumulator receives one more plane
AddPlane(c, delta, w) ==
  [c EXCEPT !.planes = Append(@, [delta |-> delta, w |-> w])]

\* a slip: kappa_i is read in the first iteration only
ReadKappaOnce ==
  /\ pc = "kappa"
  /\ kappa_i' = IF kappa_i.read THEN kappa_i ELSE [planes |-> convergence.planes,
                                                  read |-> TRUE]
  /\ pc' = "shear"
  /\ UNCHANGED <<nb, i, delta_i, yielded, exhausted, convergence, gamm_i, ngal>>
  /\ UNCHANGED <<pixvars, histvars, morevars, meanvars, divvars, binvars, anavars>>

\* a slip: convergence.add_window(delta_i, ws[i+1])
AddWindowNextShell ==
  /\ pc = "add_window"
  /\ convergence' = AddPlane(convergence, delta_i, i + 1)
  /\ pc' = "kappa"
  /\ UNCHANGED <<nb, i, delta_i, yielded, exhausted, kappa_i, gamm_i, ngal>>
  /\ UNCHANGED <<pixvars, histvars, morevars, meanvars, divvars, binvars, anavars>>

\* convergence.add_window(delta_i, ws[i])
AddWindow ==
  /\ pc = "add_window"
  /\ convergence' = AddPlane(convergence, delta_i, i)
  /\ pc' = "kappa"
  /\ UNCHANGED <<nb, i, delta_i, yielded, exhausted, kappa_i, gamm_i, ngal>>
  /\ UNCHANGED <<pixvars, histvars, morevars, meanvars, divvars, binvars, anavars>>

\* convergence.kappa: the map of the planes received so far
Kappa(c) == [planes |-> c.planes, read |-> TRUE]

\* kappa_i = convergence.kappa
ReadKappa ==
  /\ pc = "kappa"
  /\ kappa_i' = Kappa(convergence)
  /\ pc' = "shear"
  /\ UNCHANGED <<nb, i, delta_i, yielded, exhausted, convergence, gamm_i, ngal>>
  /\ UNCHANGED <<pixvars, histvars, morevars, meanvars, divvars, binvars, anavars>>

\* gamm1_i, gamm2_i = glass.lensing.shear_from_convergence(kappa_i);
\* z_i, dndz_i = glass.shells.restrict(z, dndz, ws[i]);
\* ngal = np.trapz(dndz_i, z_i)
ShearAndDensity ==
  /\ pc = "shear"
  /\ gamm_i' = kappa_i
  /\ ngal' = <<"shell", i>>
  /\ pc' = IF nb = "lensing" THEN "mean" ELSE "batches"
  /\ UNCHANGED <<nb, i, delta_i, yielded, exhausted, convergence, kappa_i>>
  /\ UNCHANGED <<pixvars, histvars, morevars, meanvars, divvars, binvars, anavars>>

\* x_bar += ngal * x_i
AddTerm(bar, w, x) == [bar EXCEPT !.terms = Append(@, <<w, x>>)]

\* x_bar /= d
Divide(bar, d) == [bar EXCEPT !.div = Append(@, d)]

\* plot_lensing: kappa_bar += ngal * kappa_i, and the same for the shears
AddToMean ==
  /\ pc = "mean"
  /\ kappa_bar' = AddTerm(kappa_bar, ngal, kappa_i)
  /\ gamm1_bar' = AddTerm(gamm1_bar, ngal, gamm_i)
  /\ gamm2_bar' = AddTerm(gamm2_bar, ngal, gamm_i)
  /\ pc' = "for"
  /\ UNCHANGED <<loopvars_but_pc, pixvars, histvars, morevars, divvars, binvars, anavars>>

\* glass.galaxies.galaxy_shear(gal_lon, gal_lat, gal_eps, kappa_i, gamm1_i,
\* gamm2_i): the maps the galaxies of a batch of shell i are sheared with
GalaxyShearMaps == [shell |-> i, kappa |-> kappa_i, gamm |-> gamm_i]

\* part_000: the inner loop yields one more batch of galaxies, whose shears
\* are reduced into num and she
Batch ==
  /\ pc = "batches"
  /\ nb = "shears"
  /\ raised = "none"
  /\ \E b \in Batches :
       /\ seen + Len(b) <= MaxPoints
       /\ Pixelize(PixOf(b), SheOf(b))
       /\ seen' = seen + Len(b)
  /\ lensed_with' = GalaxyShearMaps
  /\ UNCHANGED <<loopvars, histvars, catvars, cubevars, meanvars, divvars,
               binvars, anavars>>

\* rows = np.empty(gal_count, dtype=catalogue.dtype); rows['RA'] = gal_lon;
\* ...; rows['G2'] = gal_she.imag : one row per galaxy of the batch, here
\* its position and its shear
MiniCatalogue(b) == [n \in 1..Len(b) |-> [pos |-> b[n][1], she |-> b[n][2]]]

\* a slip: np.append(rows, catalogue), the new rows in front
NpAppendFront(arr, values) == values \o arr

\* np.append(arr, values): a new array, arr followed by values
NpAppend(arr, values) == arr \o values

\* plot_s4_galaxies: the inner loop yields one more batch of galaxies, whose
\* rows are added to the catalogue (lines 21-50)
AppendRows ==
  /\ pc = "batches"
  /\ nb = "s4"
  /\ raised = "none"
  /\ \E b \in Batches :
       /\ seen + Len(b) <= MaxPoints
       /\ rows' = MiniCatalogue(b)
       /\ catalogue' = NpAppend(catalogue, MiniCatalogue(b))
       /\ seen' = seen + Len(b)
  /\ catalogue0' = catalogue
  /\ lensed_with' = GalaxyShearMaps
  /\ UNCHANGED <<num, she, gal_pix, gal_she, raised>>
  /\ UNCHANGED <<loopvars, histvars, cubevars, meanvars, divvars, binvars, anavars>>

\* a slip: she /= nbar; num /= nbar at the end of every shell's inner loop
BatchesEndNormalising ==
  /\ pc = "batches"
  /\ raised = "none"
  /\ she_div' = Append(she_div, "nbar")
  /\ num_div' = Append(num_div, "nbar")
  /\ pc' = "for"
  /\ UNCHANGED <<loopvars_but_pc, pixvars, histvars, morevars, meanvars, binvars, anavars>>

\* part_000, plot_s4_galaxies: the position generator is exhausted, the
\* inner loop ends
BatchesEnd ==
  /\ pc = "batches"
  /\ raised = "none"
  /\ pc' = "for"
  /\ UNCHANGED <<loopvars_but_pc, pixvars, histvars, morevars, meanvars, divvars,
               binvars, anavars>>

\* plot_lensing: ngal = np.trapz(dndz, z)
TotalDensity ==
  /\ pc = "total_ngal"
  /\ ngal' = <<"all">>
  /\ pc' = "normalise"
  /\ UNCHANGED <<nb, i, delta_i, yielded, exhausted, convergence, kappa_i, gamm_i>>
  /\ UNCHANGED <<pixvars, histvars, morevars, meanvars, divvars, binvars, anavars>>

\* plot_lensing: kappa_bar /= np.sum(ngal), and the same for the shears
NormaliseMeans ==
  /\ pc = "normalise"
  /\ nb = "lensing"
  /\ kappa_bar' = Divide(kappa_bar, ngal)
  /\ gamm1_bar' = Divide(gamm1_bar, ngal)
  /\ gamm2_bar' = Divide(gamm2_bar, ngal)
  /\ pc' = "done"
  /\ UNCHANGED <<loopvars_but_pc, pixvars, histvars, morevars, divvars, binvars, anavars>>

\* x / d on float arrays: numpy raises no exception; the result is an
\* ordinary number unless d is zero (then inf or nan, with a RuntimeWarning)
TrueDivide(x, d) == IF d = RZero THEN "inf_or_nan" ELSE RDiv(x, d)

\* the map num as the analysis cell leaves it: num /= nbar divides every
\* pixel by the one scalar nbar
NormalisedNum ==
  [p \in Pixels |->
     IF num_div = << >> THEN RInt(num[p]) ELSE TrueDivide(RInt(num[p]), nbar)]

\* part_000, analysis cell: nbar = ARCMIN2_SPHERE/npix*n_arcmin2;
\* she /= nbar; num /= nbar
NormaliseMaps ==
  /\ pc = "normalise"
  /\ nb = "shears"
  /\ nbar' \in NBars
  /\ she_div' = Append(she_div, "nbar")
  /\ num_div' = Append(num_div, "nbar")
  /\ pc' = "done"
  /\ UNCHANGED <<apc, theory_cls, pw, fl, nl, mm, expected>>
  /\ UNCHANGED <<loopvars_but_pc, pixvars, histvars, morevars, meanvars, binvars>>

-----------------------------------------------------------------------------
(* The density cube: plot_density, simulation cell (lines 2-25)             *)

\* a name bound to an integer, and a name bound to an array of integers
ScalarIndex(n) == [array |-> FALSE, val |-> n]

ArrayIndex(a) == [array |-> TRUE, val |-> a]

\* the cells of the cube: np.zeros((zcub.size-1,)*3)
CubeAxis == 0..(NCubeEdges - 2)

Cells == CubeAxis \X CubeAxis \X CubeAxis

ZeroCube == [a \in CubeAxis |-> [b \in CubeAxis |-> [d \in CubeAxis |-> 0]]]

\* cube[i, j, k] for one cell ce = (i, j, k)
At(cu, ce) == cu[ce[1]][ce[2]][ce[3]]

\* np.cos(np.deg2rad(a)) and np.sin(np.deg2rad(a)) at the right angles
CosDeg(a) == CASE a % 360 = 0 -> 1 [] a % 360 = 180 -> -1 [] OTHER -> 0

SinDeg(a) == CASE a % 360 = 90 -> 1 [] a % 360 = 270 -> -1 [] OTHER -> 0

\* lines 21-23: z1, z2, z3 of a galaxy at (lon, lat) with redshift z
Cartesian(lon, lat, z) ==
  << z * CosDeg(lon) * CosDeg(lat), z * SinDeg(lon) * CosDeg(lat), z * SinDeg(lat) >>

\* the positions (gal_lon, gal_lat) glass.points.positions_from_delta
\* yields in the model, in degrees
DensityPositions == { <<180, 0>>, <<0, 90>> }

\* glass.galaxies.redshifts_from_nz(gal_count, ws[w].za, ws[w].wa): the
\* redshifts lie in the support of window w, which for tophat windows is
\* the w-th of the NShells shells between 0 and zb[-1]; in the model they
\* lie at the far edge of the shell, which is zb[-1] for the last shell
WindowRedshifts(w) == { ((w + 1) * ZMax) \div NShells }

\* the sorted distinct elements of a set of columns (i, j, k)
LexLess(a, b) ==
  \/ a[1] < b[1]
  \/ a[1] = b[1] /\ a[2] < b[2]
  \/ a[1] = b[1] /\ a[2] = b[2] /\ a[3] < b[3]

RECURSIVE LexSorted(_)
LexSorted(S) ==
  IF S = {} THEN << >>
  ELSE LET lo == CHOOSE x \in S : \A y \in S \ {x} : LexLess(x, y)
       IN  <<lo>> \o LexSorted(S \ {lo})

\* a slip: the columns as they come, each counted once, without np.unique
AllColumns(cols) == [cols |-> cols, counts |-> [g \in 1..Len(cols) |-> 1]]

\* np.unique(a, axis=1, return_counts=True) for an array a of 3 rows, given
\* by its columns: the distinct columns in lexicographic order and the
\* number of occurrences of each
UniqueColumns(cols) ==
  LET vals == LexSorted({ cols[n] : n \in 1..Len(cols) })
  IN  [ cols   |-> vals,
        counts |-> [g \in 1..Len(vals) |->
                      Cardinality({ n \in 1..Len(cols) : cols[n] = vals[g] })] ]

\* np.searchsorted(zcub[1:], [z1, z2, z3]): one column of cell indices per
\* galaxy
CellsOf(xyz) ==
  [n \in 1..Len(xyz) |-> << SearchSorted(Rest(zcub), xyz[n][1]),
                            SearchSorted(Rest(zcub), xyz[n][2]),
                            SearchSorted(Rest(zcub), xyz[n][3]) >>]

\* the state when the simulation cell has made the cube (lines 2-3)
InitDensityLoop ==
  /\ nb = "density"
  /\ pc = "for"
  /\ i = ScalarIndex(-1)
  /\ delta_i = -1
  /\ yielded = 0
  /\ exhausted = FALSE
  /\ convergence = [id |-> 0, planes |-> << >>]
  /\ kappa_i = NoMap
  /\ gamm_i = NoMap
  /\ ngal = << >>
  /\ kappa_bar = ZeroBar
  /\ gamm1_bar = ZeroBar
  /\ gamm2_bar = ZeroBar
  /\ num_div = << >>
  /\ she_div = << >>

InitCube == cube = ZeroCube /\ InitSampling

\* for i, delta_i in enumerate(matter): the next field and its index
DensityForNext ==
  /\ pc = "for"
  /\ nb = "density"
  /\ raised = "none"
  /\ yielded < NShells
  /\ i' = ScalarIndex(yielded)
  /\ delta_i' = yielded
  /\ yielded' = yielded + 1
  /\ pc' = "restrict"
  /\ UNCHANGED <<nb, exhausted, convergence, kappa_i, gamm_i, ngal>>
  /\ UNCHANGED <<pixvars, histvars, morevars, meanvars, divvars, binvars, anavars>>

\* for i, delta_i in enumerate(matter): the generator is exhausted
DensityForEnd ==
  /\ pc = "for"
  /\ nb = "density"
  /\ raised = "none"
  /\ yielded = NShells
  /\ exhausted' = TRUE
  /\ pc' = "done"
  /\ UNCHANGED <<nb, i, delta_i, yielded, convergence, kappa_i, gamm_i, ngal>>
  /\ UNCHANGED <<pixvars, histvars, morevars, meanvars, divvars, binvars, anavars>>

\* z_i, dndz_i = glass.shells.restrict(z, dndz, ws[i]);
\* ngal = np.trapz(dndz_i, z_i)
DensityRestrict ==
  /\ pc = "restrict"
  /\ ngal' = <<"shell", i.val>>
  /\ pc' = "batches"
  /\ UNCHANGED <<nb, i, delta_i, yielded, exhausted, convergence, kappa_i, gamm_i>>
  /\ UNCHANGED <<pixvars, histvars, morevars, meanvars, divvars, binvars, anavars>>

\* cube[i, j, k] += c : numpy evaluates cube[i, j, k] + c from the old cube
\* and assigns the results position by position, from the n-th on
RECURSIVE AssignFrom(_, _, _, _, _)
AssignFrom(out, old, idx, vals, n) ==
  IF n > Len(idx) THEN out
  ELSE AssignFrom([out EXCEPT ![idx[n][1]][idx[n][2]][idx[n][3]] =
                                At(old, idx[n]) + Bcast(vals, n)],
                  old, idx, vals, n + 1)

CubeAdd(arr, idx, vals) == AssignFrom(arr, arr, idx, vals, 1)

\* the batches of galaxies (lon, lat, z) of a shell whose redshifts are
\* sampled from window w
CubeBatches(w) ==
  UNION { [1..n -> { <<q[1], q[2], z>> : q \in DensityPositions,
                                         z \in WindowRedshifts(w) }] :
            n \in 1..MaxLen }

\* lines 21-25 for a batch b of galaxies (lon, lat, z): the coordinates, the
\* cells, the distinct cells and their counts, which are added to the cube;
\* line 24 binds the names i, j, k to the rows of the array of distinct cells
AddToCube(b) ==
  LET xyz == [n \in 1..Len(b) |-> Cartesian(b[n][1], b[n][2], b[n][3])]
      u   == UniqueColumns(CellsOf(xyz))
  IN  /\ gal_xyz' = xyz
      /\ i' = ArrayIndex([g \in 1..Len(u.cols) |-> u.cols[g][1]])
      /\ IF \A g \in 1..Len(u.cols) : u.cols[g] \in Cells
         THEN cube' = CubeAdd(cube, u.cols, u.counts) /\ raised' = raised
         ELSE cube' = cube /\ raised' = "IndexError"

\* one pass of the inner loop (lines 15-25): the generator yields a batch of
\* gal_count positions; line 18 indexes the list ws with i, which raises
\* TypeError when i is an array; otherwise the redshifts are sampled from
\* window i and the batch is added to the cube
DensityBatch ==
  /\ pc = "batches"
  /\ nb = "density"
  /\ raised = "none"
  /\ IF i.array
     THEN /\ \E n \in 1..MaxLen :
               /\ seen + n <= MaxPoints
               /\ gal_count' = n
               /\ seen' = seen + n
          /\ raised' = "TypeError"
          /\ UNCHANGED <<i, cube, gal_xyz, ws_used>>
     ELSE /\ \E b \in CubeBatches(i.val) :
               /\ seen + Len(b) <= MaxPoints
               /\ gal_count' = Len(b)
               /\ seen' = seen + Len(b)
               /\ AddToCube(b)
          /\ ws_used' = i.val
  /\ UNCHANGED <<num, she, gal_pix, gal_she>>
  /\ UNCHANGED <<nb, pc, delta_i, yielded, exhausted, convergence, kappa_i, gamm_i,
               ngal>>
  /\ UNCHANGED <<histvars, lensed_with, catvars, meanvars, divvars, binvars, anavars>>

\* the position generator is exhausted, the inner loop ends
DensityBatchesEnd ==
  /\ pc = "batches"
  /\ nb = "density"
  /\ raised = "none"
  /\ pc' = "for"
  /\ UNCHANGED <<loopvars_but_pc, pixvars, histvars, morevars, meanvars, divvars,
               binvars, anavars>>

NextDensity ==
  \/ DensityForNext
  \/ DensityForEnd
  \/ DensityRestrict
  \/ DensityBatch
  \/ DensityBatchesEnd

InitDensity ==
  InitPix /\ InitHist /\ InitDensityLoop /\ InitBinIdle /\ InitAnaIdle /\ InitMore
  /\ InitCube

SpecDensity == InitDensity /\ [][NextDensity]_vars

Next ==
  \/ ForNext
  \/ ForEnd
  \/ AddWindow
  \/ ReadKappa
  \/ ShearAndDensity
  \/ AddToMean
  \/ Batch
  \/ AppendRows
  \/ BatchesEnd
  \/ TotalDensity
  \/ NormaliseMeans
  \/ NormaliseMaps

Init ==
  InitPix /\ InitHist /\ InitLoop /\ InitBinIdle /\ InitAnaIdle /\ InitMore
  /\ InitNoCube

Spec == Init /\ [][Next]_vars

\* the inner loop on its own, as a stream of batches
PixStep ==
  /\ ReduceBatch
  /\ UNCHANGED <<loopvars, meanvars, divvars, binvars, anavars, morevars>>

NextPix == PixStep

InitPixOnly ==
  InitPix /\ InitHist /\ InitLoopIdle /\ InitBinIdle /\ InitAnaIdle /\ InitMore
  /\ InitNoCube

SpecPix == InitPixOnly /\ [][NextPix]_vars

-----------------------------------------------------------------------------
(* Claims about the reduction *)

\* the one-point-at-a-time linear scan: num[p] += 1, she[p] += v per galaxy
RECURSIVE NaiveNum(_, _)
NaiveNum(n, gp) ==
  IF gp = << >> THEN n
  ELSE NaiveNum([n EXCEPT ![gp[1]] = @ + 1], Tail(gp))

RECURSIVE NaiveShe(_, _, _)
NaiveShe(sh, gp, gs) ==
  IF gp = << >> THEN sh
  ELSE NaiveShe([sh EXCEPT ![gp[1]] = CAdd(@, gs[1])], Tail(gp), Tail(gs))

\* every result the code can produce for the batch (gp, gs) from the maps
\* (n, sh) is the pair of maps (n2, sh2), and no ValueError is raised
ReducesTo(n, sh, gp, gs, n2, sh2) ==
  \A s \in ArgSorts(gp) :
    /\ ReduceOk(gp, gs, s)
    /\ ReduceNum(n, gp, s) = n2
    /\ ReduceShe(sh, gp, gs, s) = sh2

\* C1: for the batch just reduced and every permutation of it, the
\* sort-group-sum reduction adds to each pixel exactly the (count, value sum)
\* of a naive one-point-at-a-time scan (empty and one-pixel batches included)
C1_ReductionEqualsNaiveScan ==
  /\ raised = "none"
  /\ num = NaiveNum(num0, gal_pix)
  /\ she = NaiveShe(she0, gal_pix, gal_she)
  /\ \A q \in Perms(Len(gal_pix)) :
       ReducesTo(num0, she0, Take(gal_pix, q), Take(gal_she, q), num, she)

\* a batch out of pixel order, with two different shears, reduced into maps
\* that already hold galaxies
C1_Witness ==
  /\ Len(gal_pix) = 2
  /\ gal_pix[1] > gal_pix[2]
  /\ gal_she[1] # gal_she[2]
  /\ num0[gal_pix[1]] > 0
  /\ num # num0

\* C2: accumulating batch A and then batch B, in either order, leaves every
\* pixel as accumulating the concatenation of A and B in one reduction
C2_Additivity ==
  LET Apix == prev_pix
      Ashe == prev_she
      Bpix == gal_pix
      Bshe == gal_she
  IN  /\ ReducesTo(num00, she00, Apix \o Bpix, Ashe \o Bshe, num, she)
      /\ \A sB \in ArgSorts(Bpix) :
           ReducesTo(ReduceNum(num00, Bpix, sB), ReduceShe(she00, Bpix, Bshe, sB),
                     Apix, Ashe, num, she)

\* two non-empty batches in a row that share a pixel, the second also
\* reaching a pixel the first did not
C2_Witness ==
  /\ Len(prev_pix) >= 1
  /\ Len(gal_pix) = 2
  /\ \E j \in 1..Len(prev_pix), k \in 1..Len(gal_pix) : prev_pix[j] = gal_pix[k]
  /\ \E k \in 1..Len(gal_pix) : \A j \in 1..Len(prev_pix) : prev_pix[j] # gal_pix[k]
  /\ num # num0

\* C8: a reduction step changes only the pixels the batch maps to; from all
\* zeros, a batch that falls in one pixel p leaves p at (number of points,
\* sum of values) and every other pixel at (0, 0)
C8_OnlyTouchedPixelsChange ==
  /\ \A p \in Pixels :
       (\A k \in 1..Len(gal_pix) : gal_pix[k] # p)
          => num[p] = num0[p] /\ she[p] = she0[p]
  /\ \A p \in Pixels :
       ( /\ Len(gal_pix) >= 1
         /\ \A k \in 1..Len(gal_pix) : gal_pix[k] = p
         /\ \A r \in Pixels : num0[r] = 0 /\ she0[r] = CZero )
          => /\ num[p] = Len(gal_pix)
             /\ she[p] = CSum(gal_she)
             /\ \A r \in Pixels \ {p} : num[r] = 0 /\ she[r] = CZero

\* from all zeros, a batch of two galaxies in the last pixel
C8_Witness ==
  /\ Len(gal_pix) = 2
  /\ \A k \in 1..2 : gal_pix[k] = NPix - 1
  /\ \A r \in Pixels : num0[r] = 0 /\ she0[r] = CZero
  /\ num[NPix - 1] = 2

-----------------------------------------------------------------------------
(* Claims about the main loops *)

\* C5: add_window is called exactly once per yielded field, the i-th field
\* with window ws[i], for i = 0, 1, 2, ... with none skipped or repeated, on
\* the one accumulator created before the loop, which is never re-created
\* or reset
C5_OneWindowPerField ==
  /\ convergence.id = 1
  /\ Len(convergence.planes) = (IF pc = "add_window" THEN yielded - 1 ELSE yielded)
  /\ \A k \in 1..Len(convergence.planes) :
       convergence.planes[k] = [delta |-> k - 1, w |-> k - 1]

\* the stream is exhausted and the accumulator has received every shell
C5_Witness ==
  /\ exhausted
  /\ Len(convergence.planes) = NShells
  /\ NShells >= 2

\* some running aggregate has been normalised
Finalized ==
  \/ num_div # << >>
  \/ she_div # << >>
  \/ kappa_bar.div # << >>
  \/ gamm1_bar.div # << >>
  \/ gamm2_bar.div # << >>

NormalisedAtMostOnce ==
  /\ Len(num_div) <= 1
  /\ Len(she_div) <= 1
  /\ Len(kappa_bar.div) <= 1
  /\ Len(gamm1_bar.div) <= 1
  /\ Len(gamm2_bar.div) <= 1

NormalisedWhenDone ==
  /\ nb = "shears" => Len(num_div) = 1 /\ Len(she_div) = 1
  /\ nb = "lensing" =>
       Len(kappa_bar.div) = 1 /\ Len(gamm1_bar.div) = 1 /\ Len(gamm2_bar.div) = 1

\* C7: the running aggregates (num, she; kappa_bar, gamm1_bar, gamm2_bar) are
\* normalised exactly once, only after the shell stream is exhausted, and
\* once normalised nothing is accumulated into them any more
C7_NormalisedOnceAfterStream ==
  /\ [](NormalisedAtMostOnce)
  /\ [](Finalized => exhausted)
  /\ [](pc = "done" => NormalisedWhenDone)
  /\ [][Finalized =>
          /\ Finalized'
          /\ num' = num /\ she' = she
          /\ kappa_bar' = kappa_bar /\ gamm1_bar' = gamm1_bar
          /\ gamm2_bar' = gamm2_bar
          /\ num_div' = num_div /\ she_div' = she_div]_vars

\* the shear notebook has accumulated galaxies from every shell's loop and
\* has normalised its maps
C7_Witness ==
  /\ nb = "shears"
  /\ pc = "done"
  /\ seen >= 2
  /\ num_div = <<"nbar">>
  /\ she_div = <<"nbar">>

\* the convergence map after exactly n add_window calls, for shells 0..n-1
MapAfter(n) ==
  [planes |-> [t \in 1..n |-> [delta |-> t - 1, w |-> t - 1]], read |-> TRUE]

\* C15: in the iteration for shell i, add_window(delta_i, ws[i]) has
\* completed before kappa is read and before the shear is derived, and every
\* galaxy batch and every weighted-mean update of shell i uses the maps of
\* the state after exactly i+1 add_window calls
C15_MapsOfCurrentShell ==
  /\ pc \in {"kappa", "shear", "batches", "mean"} =>
       Len(convergence.planes) = i + 1
  /\ pc \in {"shear", "batches", "mean"} => kappa_i = MapAfter(i + 1)
  /\ pc \in {"batches", "mean"} => gamm_i = MapAfter(i + 1)
  /\ lensed_with.shell >= 0 =>
       /\ lensed_with.kappa = MapAfter(lensed_with.shell + 1)
       /\ lensed_with.gamm = MapAfter(lensed_with.shell + 1)
       /\ lensed_with.shell <= i
  /\ \A t \in 1..Len(kappa_bar.terms) :
       /\ kappa_bar.terms[t] = << <<"shell", t - 1>>, MapAfter(t) >>
       /\ gamm1_bar.terms[t] = << <<"shell", t - 1>>, MapAfter(t) >>
       /\ gamm2_bar.terms[t] = << <<"shell", t - 1>>, MapAfter(t) >>

\* a batch of galaxies has been sheared in the second shell, and the
\* weighted mean has been updated for the second shell
C15_Witness ==
  \/ /\ nb \in {"shears", "s4"}
     /\ pc = "batches"
     /\ i = 1
     /\ lensed_with.shell = 1
     /\ seen >= 1
  \/ /\ nb = "lensing"
     /\ Len(kappa_bar.terms) = 2

\* C19: the catalogue is append-only: its length is the sum of gal_count
\* over the batches so far, the rows of the last batch come contiguously
\* after all earlier rows, and earlier rows are unchanged and keep their
\* order
C19_CatalogueAppendOnly ==
  /\ [](nb = "s4" => /\ Len(catalogue) = seen
                     /\ catalogue = catalogue0 \o rows)
  /\ [][/\ Len(catalogue') >= Len(catalogue)
        /\ SubSeq(catalogue', 1, Len(catalogue)) = catalogue]_vars

\* two batches in a row have added different rows to the catalogue
C19_Witness ==
  /\ nb = "s4"
  /\ Len(catalogue0) >= 1
  /\ Len(rows) >= 1
  /\ catalogue0[1] # rows[1]
  /\ Len(catalogue) = Len(catalogue0) + Len(rows)

\* C16: in the density-cube loop every batch yielded for shell s, the first
\* and every later one, has its redshifts sampled from ws[s]: indexing ws
\* never fails, and the window sampled is that of the current shell
C16_WindowOfCurrentShell ==
  [][(nb = "density" /\ seen' > seen) =>
       /\ raised' = "none"
       /\ ws_used' = delta_i]_vars

\* the two count aggregates, each in its notebook: num (inner loop of the
\* shear notebook) and cube (plot_density)
InitCount ==
  /\ InitPix /\ InitHist /\ InitBinIdle /\ InitAnaIdle /\ InitMore
  /\ \/ InitLoopIdle /\ InitNoCube
     \/ InitDensityLoop /\ InitCube

NextCount ==
  \/ nb = "none" /\ PixStep
  \/ NextDensity

SpecCount == InitCount /\ [][NextCount]_vars

\* the sum of the map n over the pixels 0..p
RECURSIVE NumSum(_, _)
NumSum(n, p) == IF p < 0 THEN 0 ELSE n[p] + NumSum(n, p - 1)

\* the sum of the map num over all pixels
NumTotal(n) == NumSum(n, NPix - 1)

\* the sum of the cube cu over the cells (a, b, 0..d), over the cells
\* (a, 0..b, all) and over the cells (0..a, all, all)
RECURSIVE CubeSumLine(_, _, _, _)
CubeSumLine(cu, a, b, d) ==
  IF d < 0 THEN 0 ELSE cu[a][b][d] + CubeSumLine(cu, a, b, d - 1)

RECURSIVE CubeSumPlane(_, _, _)
CubeSumPlane(cu, a, b) ==
  IF b < 0 THEN 0
  ELSE CubeSumLine(cu, a, b, NCubeEdges - 2) + CubeSumPlane(cu, a, b - 1)

RECURSIVE CubeSum(_, _)
CubeSum(cu, a) ==
  IF a < 0 THEN 0
  ELSE CubeSumPlane(cu, a, NCubeEdges - 2) + CubeSum(cu, a - 1)

\* the sum of the cube over all cells
CubeTotal(cu) == CubeSum(cu, NCubeEdges - 2)

\* no element occurs twice in the sequence a
NoDuplicates(a) == \A g, h \in 1..Len(a) : a[g] = a[h] => g = h

\* the galaxies of the batches whose loop body has run
Processed == IF raised = "none" THEN seen ELSE seen - gal_count

\* C17: each of the three cell indices searchsorted returns over zcub[1:]
\* lies in 0..19 for every coordinate from -zb[-1] to +zb[-1], both ends
\* included
C17_CubeIndicesInRange ==
  site = "cube" =>
    \A a \in 1..3 :
      /\ cell[a] \in 0..(NCubeEdges - 2)
      /\ cell[a] \in 0..19

\* a galaxy with one coordinate at -zb[-1] and another at +zb[-1]
C17_Witness ==
  /\ site = "cube"
  /\ coord[1] = -ZMax
  /\ coord[2] = ZMax
  /\ cell[1] = 0
  /\ cell[2] = NCubeEdges - 2

\* C18: every entry of a count aggregate is a non-negative integer that
\* never decreases, the sum of the aggregate over all bins is the number of
\* galaxies of all batches processed so far, and the index arrays of each
\* scatter-add hold no bin twice
C18_CountConservation ==
  /\ [](nb = "none" =>
          /\ \A p \in Pixels : num[p] \in Nat
          /\ NumTotal(num) = Processed
          /\ \A s \in ArgSorts(gal_pix) : NoDuplicates(Unique(Take(gal_pix, s)).pix))
  /\ [](nb = "density" =>
          /\ \A a, b, d \in CubeAxis : cube[a][b][d] \in Nat
          /\ CubeTotal(cube) = Processed
          /\ NoDuplicates(UniqueColumns(CellsOf(gal_xyz)).cols))
  /\ [][/\ \A p \in Pixels : num'[p] >= num[p]
        /\ nb = "density" =>
             \A a, b, d \in CubeAxis : cube'[a][b][d] >= cube[a][b][d]]_vars

\* the cube holds two galaxies of one batch in one cell and a galaxy of a
\* later batch in another; or num holds the galaxies of two batches
C18_Witness ==
  \/ /\ nb = "density"
     /\ seen = 3
     /\ raised = "none"
     /\ \E ce \in Cells : At(cube, ce) = 2
     /\ \E ce \in Cells : At(cube, ce) = 1
  \/ /\ nb = "none"
     /\ seen = 3
     /\ Len(prev_pix) >= 1
     /\ Len(gal_pix) = 2
     /\ gal_pix[1] = gal_pix[2]

\* C14: the normalised value of a pixel whose accumulated count is zero is
\* a signalled division by zero: the run that normalises such a pixel ends
\* with an error raised, never with an ordinary number in that pixel
C14_ZeroCountSignalled ==
  (nb = "shears" /\ pc = "done") =>
    \A p \in Pixels :
      num[p] = 0 =>
        /\ raised # "none"
        /\ NormalisedNum[p] \notin { RInt(n) : n \in 0..MaxPoints }

-----------------------------------------------------------------------------
(* The binning sites on their own *)

InitBinOnly ==
  InitPix /\ InitHist /\ InitLoopIdle /\ InitBin /\ InitAnaIdle /\ InitMore
  /\ InitNoCube

NextBin ==
  \/ BinCube
  \/ BinTomo
  \/ BinMask

SpecBin == InitBinOnly /\ [][NextBin]_vars

\* the edges of the tomographic bins
Edges == UniqueEdges(zbins)

\* C3: at every binning site a coordinate that lies exactly on a bin edge
\* goes to the bin with lower_edge <= coordinate < upper_edge
C3_HalfOpenAtEverySite ==
  /\ site = "cube" =>
       \A a \in 1..3 :
         (\E k \in 1..NCubeEdges : zcub[k] = coord[a] /\ k < NCubeEdges)
            => /\ cell[a] \in 0..(NCubeEdges - 2)
               /\ zcub[cell[a] + 1] <= coord[a]
               /\ coord[a] < zcub[cell[a] + 2]
  /\ site = "tomo" =>
       ((\E k \in 1..(Len(Edges) - 1) : Edges[k] = gal_phz)
          => /\ gal_zbin \in 0..(Len(Edges) - 2)
             /\ Edges[gal_zbin + 1] <= gal_phz
             /\ gal_phz < Edges[gal_zbin + 2])
  /\ site = "mask" =>
       ((\E k \in 1..(Len(Edges) - 1) : Edges[k] = zphot)
          => \E b \in 0..(Len(zbins) - 1) :
               /\ in_bins = {b}
               /\ zbins[b + 1][1] <= zphot
               /\ zphot < zbins[b + 1][2])

-----------------------------------------------------------------------------
(* The analysis cell on its own *)

InitAnaOnly ==
  InitPix /\ InitHist /\ InitLoopIdle /\ InitBinIdle /\ InitAna /\ InitMore
  /\ InitNoCube

NextAna ==
  \/ ComputeFl
  \/ ComputeNl
  \/ BuildMixingMatrix
  \/ ZeroMixingMatrix
  \/ PlotExpectation

SpecAna == InitAnaOnly /\ [][NextAna]_vars

\* C10: mm is square of size (lmax+1) x (lmax+1); once line 28 has run, its
\* rows 0 and 1 and its columns 0 and 1 are exactly zero, and the expected
\* spectrum is zero at l = 0 and l = 1 whatever the theory spectrum
C10_MixingMatrixLowModesZero ==
  /\ apc \in {"mm_zero", "plot", "done"} =>
       /\ DOMAIN mm = 0..LMax
       /\ \A r \in DOMAIN mm : DOMAIN mm[r] = 0..LMax
  /\ apc \in {"plot", "done"} =>
       \A r \in 0..LMax, c \in 0..LMax :
         (r < 2 \/ c < 2) => mm[r][c] = RZero
  /\ apc = "done" =>
       /\ DOMAIN expected = 0..LMax
       /\ expected[0] = RZero
       /\ expected[1] = RZero

\* a theory spectrum with power in the monopole, the dipole and above, whose
\* expectation is computed and is not zero at l = 2
C10_Witness ==
  /\ apc = "done"
  /\ theory_cls[0] > 0
  /\ theory_cls[1] > 0
  /\ theory_cls[2] > 0
  /\ expected[2] # RZero
  /\ mm[2][2] # RZero

\* C11: nl has lmax+1 entries, is exactly zero at l = 0 and l = 1, and at
\* every l in 2..lmax is the one closed-form value 4*pi/(nbar*npix)*sigma_e**2
\* (here in units of 4*pi*sigma_e**2), which is not zero
C11_ShotNoiseClosedForm ==
  apc \in {"mm", "mm_zero", "plot", "done"} =>
    /\ DOMAIN nl = 0..LMax
    /\ nl[0] = RZero
    /\ nl[1] = RZero
    /\ \A k \in 2..LMax :
         /\ RMul(nl[k], RMul(nbar, RInt(NPix))) = RInt(1)
         /\ nl[k] = nl[2]
         /\ nl[k] # RZero

\* the noise level is computed for an expected count per pixel of 1/2
C11_Witness ==
  /\ apc = "mm"
  /\ nbar = Frac(1, 2)
  /\ LMax >= 3
  /\ nl[LMax] = RInt(1)

\* C12: the factor fl is defined at every l in 0..lmax (its divisor is never
\* zero), is exactly zero at l = 0 and l = 1, so that the shear spectrum it
\* gives for any convergence spectrum is zero there, and at l >= 2 is
\* (l+2)(l+1)l(l-1) / (l^2 (l+1)^2), the square of f(l)
C12_ShearFactorLowModesZero ==
  /\ \A k \in Modes : FlDivisor(k) # 0
  /\ apc \in {"nl", "mm", "mm_zero", "plot", "done"} =>
       /\ DOMAIN fl = 0..LMax
       /\ fl[0] = RZero
       /\ fl[1] = RZero
       /\ ShearSpectrum[0] = RZero
       /\ ShearSpectrum[1] = RZero
       /\ \A k \in 2..LMax :
            /\ fl[k][2] > 0
            /\ fl[k][1] * (k * k * (k + 1) * (k + 1))
                 = fl[k][2] * ((k + 2) * (k + 1) * k * (k - 1))

\* fl is computed and applied to a convergence spectrum with power in the
\* monopole and the dipole; at l = 2 it is 2/3
C12_Witness ==
  /\ apc = "nl"
  /\ theory_cls[0] > 0
  /\ theory_cls[1] > 0
  /\ fl[2] = Frac(2, 3)

=============================================================================
